---- MODULE Spec2Model ----
(***************************************************************************)
(* Order synchronisation pipeline of brands-manago.                        *)
(*                                                                         *)
(* Two state machines share this module:                                   *)
(*   Spec       the scheduler / run-guard (OrderSchedulerService): timer,  *)
(*              start/stop, timer ticks, runNow, runStatusMonitoringNow    *)
(*              and the asynchronous completion of the calls they await.   *)
(*   BatchSpec  the persistence gate (ExternalApiService                   *)
(*              .saveOrdersToDatabase over orderModel and the orders       *)
(*              collection): batches that await the store item by item.    *)
(* JavaScript runs every stretch of code between two awaits atomically, so *)
(* an action is one such stretch.                                          *)
(***************************************************************************)
EXTENDS Integers, Sequences, FiniteSets, TLC

\* ------------------------------------------------------------------------
\* Bounds
\* ------------------------------------------------------------------------
MaxCalls == 3       \* invocations of the scheduler's entry points
MaxTimers == 2      \* cron tasks ever created by start()
MaxLen == 2         \* raw orders in one fetched list
MaxClock == 2       \* distinct instants the system clock shows
MaxPages == 2       \* pages the order search reports for a full sweep
MaxDrift == 1       \* milliseconds the clock advances between two readings

Calls == 1..MaxCalls

\* Two calls of saveOrdersToDatabase are made on the same fetched list: a run
\* and its re-run, which overlap when their callers do not wait for each
\* other.
Batches == {1, 2}

VARIABLES
    isRunning,      \* OrderSchedulerService.isRunning
    scheduledTask,  \* OrderSchedulerService.scheduledTask: 0 is null, else a cron task
    timers,         \* cron tasks created so far: task id -> "started" | "stopped"
    apiReady,       \* externalApiService.isReady()
    pc,             \* position of every invocation
    kind,           \* entry point of every invocation
    fetchCount,     \* requests sent to the external order search
    saveCount,      \* calls of saveOrdersToDatabase made by scheduler downloads
    jobCount,       \* calls of externalApiService.runStatusMonitoringJob
    log,            \* console.error lines written so far
    store,          \* documents of the orders collection
    nextId,         \* next ObjectId the collection assigns
    clock,          \* the instant new Date() shows
    fetched,        \* the raw orders handed to saveOrdersToDatabase
    batch,          \* every saveOrdersToDatabase call: position, option, results
    job             \* every download call made on ExternalApiService directly

schedVars == <<isRunning, scheduledTask, timers, apiReady, pc, kind,
               fetchCount, saveCount, jobCount, log>>

batchVars == <<store, nextId, clock, fetched, batch>>

jobVars == <<job>>

vars == <<schedVars, batchVars, jobVars>>

\* ------------------------------------------------------------------------
\* Scheduler (src/app/services/order-scheduler-service.js)
\* ------------------------------------------------------------------------

\* The console.error lines of the scheduler
LogTasksFailed      == "Scheduled tasks failed"
LogRunFailed        == "Scheduler run failed"
LogMonitoringFailed == "Status monitoring failed"
LogTestFailed       == "Status monitoring test failed"

\* getStatus(): the fields that are state of the scheduler
getStatus ==
    [isScheduled |-> scheduledTask # 0,
     isRunning   |-> isRunning,
     apiReady    |-> apiReady]

\* start() without its check for a task that is already scheduled
startAgain ==
    /\ IF ~apiReady
       THEN UNCHANGED <<scheduledTask, timers>>
       ELSE /\ Len(timers) < MaxTimers
            /\ timers' = Append(timers, "started")
            /\ scheduledTask' = Len(timers) + 1
    /\ UNCHANGED <<isRunning, apiReady, pc, kind, fetchCount, saveCount, jobCount, log>>
    /\ UNCHANGED <<batchVars, jobVars>>

\* start(): no-op when already scheduled or when the API is not configured;
\* otherwise creates one cron task and starts it.
start ==
    /\ IF scheduledTask # 0 \/ ~apiReady
       THEN UNCHANGED <<scheduledTask, timers>>
       ELSE /\ Len(timers) < MaxTimers
            /\ timers' = Append(timers, "started")
            /\ scheduledTask' = Len(timers) + 1
    /\ UNCHANGED <<isRunning, apiReady, pc, kind, fetchCount, saveCount, jobCount, log>>
    /\ UNCHANGED <<batchVars, jobVars>>

\* stop() that forgets the cron task without stopping it
stopForgetsTask ==
    /\ IF scheduledTask # 0
       THEN /\ scheduledTask' = 0
            /\ UNCHANGED timers
       ELSE UNCHANGED <<scheduledTask, timers>>
    /\ UNCHANGED <<isRunning, apiReady, pc, kind, fetchCount, saveCount, jobCount, log>>
    /\ UNCHANGED <<batchVars, jobVars>>

\* stop(): stops the cron task and forgets it; no-op when not scheduled.
stop ==
    /\ IF scheduledTask # 0
       THEN /\ timers' = [timers EXCEPT ![scheduledTask] = "stopped"]
            /\ scheduledTask' = 0
       ELSE UNCHANGED <<scheduledTask, timers>>
    /\ UNCHANGED <<isRunning, apiReady, pc, kind, fetchCount, saveCount, jobCount, log>>
    /\ UNCHANGED <<batchVars, jobVars>>

\* Invocations are numbered in the order they are made.
nextCall(i) ==
    /\ pc[i] = "idle"
    /\ \A j \in Calls : j < i => pc[j] # "idle"

\* runScheduledTask() with its run-guard left out
runScheduledTaskUnguarded(i, k) ==
    /\ nextCall(i)
    /\ kind' = [kind EXCEPT ![i] = k]
    /\ isRunning' = TRUE
    /\ pc' = [pc EXCEPT ![i] = "fetching"]
    /\ fetchCount' = IF apiReady THEN fetchCount + 1 ELSE fetchCount
    /\ UNCHANGED <<scheduledTask, timers, apiReady, saveCount, jobCount, log>>
    /\ UNCHANGED <<batchVars, jobVars>>

\* runScheduledTask() up to its first suspension: the run-guard, then
\* downloadNewOrders() -> downloadAndSaveNewlyAddedOrdersFromScheduler()
\* -> downloadOrdersByTimeWindow(), which sends the search request when the
\* client is configured and rejects without a request when it is not.
runScheduledTask(i, k) ==
    /\ nextCall(i)
    /\ kind' = [kind EXCEPT ![i] = k]
    /\ IF isRunning
       THEN /\ pc' = [pc EXCEPT ![i] = "skipped"]
            /\ UNCHANGED <<isRunning, fetchCount>>
       ELSE /\ isRunning' = TRUE
            /\ pc' = [pc EXCEPT ![i] = "fetching"]
            /\ fetchCount' = IF apiReady THEN fetchCount + 1 ELSE fetchCount
    /\ UNCHANGED <<scheduledTask, timers, apiReady, saveCount, jobCount, log>>
    /\ UNCHANGED <<batchVars, jobVars>>

\* A cron callback that fires without a started task
tickWithoutTask(i) == runScheduledTask(i, "tick")

\* The cron callback of a started task: await this.runScheduledTask()
tick(i) ==
    /\ \E t \in DOMAIN timers : timers[t] = "started"
    /\ runScheduledTask(i, "tick")

\* runNow(): await this.runScheduledTask()
runNow(i) == runScheduledTask(i, "runNow")

\* runStatusMonitoringNow() up to its first suspension: the run-guard, then
\* runStatusMonitoringTask() -> runStatusMonitoringJob()
runStatusMonitoringNow(i) ==
    /\ nextCall(i)
    /\ kind' = [kind EXCEPT ![i] = "statusNow"]
    /\ IF isRunning
       THEN /\ pc' = [pc EXCEPT ![i] = "skipped"]
            /\ UNCHANGED <<isRunning, jobCount>>
       ELSE /\ isRunning' = TRUE
            /\ pc' = [pc EXCEPT ![i] = "monitoring"]
            /\ jobCount' = jobCount + 1
    /\ UNCHANGED <<scheduledTask, timers, apiReady, fetchCount, saveCount, log>>
    /\ UNCHANGED <<batchVars, jobVars>>

\* A download that sends the search again when it has failed
fetchReturnsRetries(i, outcome) ==
    /\ pc[i] = "fetching"
    /\ apiReady \/ outcome = "fail"
    /\ IF outcome = "orders"
       THEN /\ pc' = [pc EXCEPT ![i] = "saving"]
            /\ saveCount' = saveCount + 1
            /\ UNCHANGED <<isRunning, jobCount, fetchCount>>
       ELSE IF outcome = "fail" /\ fetchCount < 2 * MaxCalls
       THEN /\ fetchCount' = fetchCount + 1
            /\ UNCHANGED <<pc, isRunning, jobCount, saveCount>>
       ELSE /\ pc' = [pc EXCEPT ![i] = "monitoring"]
            /\ isRunning' = FALSE
            /\ jobCount' = jobCount + 1
            /\ UNCHANGED <<saveCount, fetchCount>>
    /\ log' = IF outcome = "fail" THEN log \cup {LogRunFailed} ELSE log
    /\ UNCHANGED <<scheduledTask, timers, apiReady, kind>>
    /\ UNCHANGED <<batchVars, jobVars>>

\* A run that ends with its failed download: the rejection is logged, the
\* guard is released and runStatusMonitoringTask() is not called
fetchReturnsAborts(i, outcome) ==
    /\ pc[i] = "fetching"
    /\ apiReady \/ outcome = "fail"
    /\ IF outcome = "orders"
       THEN /\ pc' = [pc EXCEPT ![i] = "saving"]
            /\ saveCount' = saveCount + 1
            /\ UNCHANGED <<isRunning, jobCount>>
       ELSE IF outcome = "fail"
       THEN /\ pc' = [pc EXCEPT ![i] = "done"]
            /\ isRunning' = FALSE
            /\ UNCHANGED <<saveCount, jobCount>>
       ELSE /\ pc' = [pc EXCEPT ![i] = "monitoring"]
            /\ isRunning' = FALSE
            /\ jobCount' = jobCount + 1
            /\ UNCHANGED saveCount
    /\ log' = IF outcome = "fail" THEN log \cup {LogRunFailed} ELSE log
    /\ UNCHANGED <<scheduledTask, timers, apiReady, kind, fetchCount>>
    /\ UNCHANGED <<batchVars, jobVars>>

\* The time-window fetch settles. "orders": saveOrdersToDatabase is called.
\* "fail": it rejects, the rejection passes through
\* downloadAndSaveNewlyAddedOrdersFromScheduler and is caught and logged by
\* downloadNewOrders. "empty": the zeroed result is returned without a
\* save. In both, the finally block of downloadNewOrders runs, and
\* runScheduledTask resumes in the same turn of the microtask queue and
\* calls runStatusMonitoringTask() -> runStatusMonitoringJob().
fetchReturns(i, outcome) ==
    /\ pc[i] = "fetching"
    /\ apiReady \/ outcome = "fail"
    /\ IF outcome = "orders"
       THEN /\ pc' = [pc EXCEPT ![i] = "saving"]
            /\ saveCount' = saveCount + 1
            /\ UNCHANGED <<isRunning, jobCount>>
       ELSE /\ pc' = [pc EXCEPT ![i] = "monitoring"]
            /\ isRunning' = FALSE
            /\ jobCount' = jobCount + 1
            /\ UNCHANGED saveCount
    /\ log' = IF outcome = "fail" THEN log \cup {LogRunFailed} ELSE log
    /\ UNCHANGED <<scheduledTask, timers, apiReady, kind, fetchCount>>
    /\ UNCHANGED <<batchVars, jobVars>>

\* saveOrdersToDatabase settles (it never rejects for per-item failures);
\* downloadNewOrders logs the result, its finally block runs, and
\* runScheduledTask resumes and calls runStatusMonitoringTask() ->
\* runStatusMonitoringJob().
saveReturns(i) ==
    /\ pc[i] = "saving"
    /\ pc' = [pc EXCEPT ![i] = "monitoring"]
    /\ isRunning' = FALSE
    /\ jobCount' = jobCount + 1
    /\ UNCHANGED <<scheduledTask, timers, apiReady, kind, fetchCount, saveCount, log>>
    /\ UNCHANGED <<batchVars, jobVars>>

\* jobReturns with the finally blocks of the callers left out
jobReturnsWithoutFinally(i, ok) ==
    /\ pc[i] = "monitoring"
    /\ pc' = [pc EXCEPT ![i] = "done"]
    /\ log' = IF ok THEN log
               ELSE log \cup {LogMonitoringFailed,
                              IF kind[i] = "statusNow" THEN LogTestFailed ELSE LogTasksFailed}
    /\ UNCHANGED <<isRunning, scheduledTask, timers, apiReady, kind, fetchCount, saveCount,
                   jobCount>>
    /\ UNCHANGED <<batchVars, jobVars>>

\* jobReturns with a caller that has no catch block: the failure of the job
\* is raised to the caller of the entry point
jobReturnsRaises(i, ok) ==
    /\ pc[i] = "monitoring"
    /\ pc' = [pc EXCEPT ![i] = IF ok THEN "done" ELSE "raised"]
    /\ isRunning' = FALSE
    /\ log' = IF ok THEN log ELSE log \cup {LogMonitoringFailed}
    /\ UNCHANGED <<scheduledTask, timers, apiReady, kind, fetchCount, saveCount, jobCount>>
    /\ UNCHANGED <<batchVars, jobVars>>

\* runStatusMonitoringJob settles, with success or failure. A failure is
\* re-thrown by runStatusMonitoringTask and caught by the caller
\* (runScheduledTask or runStatusMonitoringNow); the caller's finally block
\* runs in both cases.
jobReturns(i, ok) ==
    /\ pc[i] = "monitoring"
    /\ pc' = [pc EXCEPT ![i] = "done"]
    /\ isRunning' = FALSE
    /\ log' = IF ok THEN log
               ELSE log \cup {LogMonitoringFailed,
                              IF kind[i] = "statusNow" THEN LogTestFailed ELSE LogTasksFailed}
    /\ UNCHANGED <<scheduledTask, timers, apiReady, kind, fetchCount, saveCount, jobCount>>
    /\ UNCHANGED <<batchVars, jobVars>>

\* runStatusMonitoringTask() called directly, up to its await: no run-guard,
\* runStatusMonitoringJob() is called.
runStatusMonitoringTask(i) ==
    /\ nextCall(i)
    /\ kind' = [kind EXCEPT ![i] = "statusTask"]
    /\ pc' = [pc EXCEPT ![i] = "task"]
    /\ jobCount' = jobCount + 1
    /\ UNCHANGED <<isRunning, scheduledTask, timers, apiReady, fetchCount, saveCount, log>>
    /\ UNCHANGED <<batchVars, jobVars>>

\* The job of a direct runStatusMonitoringTask() settles: it returns, or its
\* failure is logged and thrown again to the caller.
runStatusMonitoringTaskReturns(i, ok) ==
    /\ pc[i] = "task"
    /\ pc' = [pc EXCEPT ![i] = IF ok THEN "done" ELSE "raised"]
    /\ log' = IF ok THEN log ELSE log \cup {LogMonitoringFailed}
    /\ UNCHANGED <<isRunning, scheduledTask, timers, apiReady, kind, fetchCount, saveCount,
                   jobCount>>
    /\ UNCHANGED <<batchVars, jobVars>>

\* runAllTasksNow(): returns at once while a run is in flight; otherwise it
\* calls this.runScheduledTasks(), which the class does not define, so the
\* call raises a TypeError to the caller before anything is run.
runAllTasksNow(i) ==
    /\ nextCall(i)
    /\ kind' = [kind EXCEPT ![i] = "allNow"]
    /\ pc' = [pc EXCEPT ![i] = IF isRunning THEN "skipped" ELSE "raised"]
    /\ UNCHANGED <<isRunning, scheduledTask, timers, apiReady, fetchCount, saveCount,
                   jobCount, log>>
    /\ UNCHANGED <<batchVars, jobVars>>

\* ------------------------------------------------------------------------
\* Order transformer (src/unnamed/part_013, ExternalApiService)
\* ------------------------------------------------------------------------

\* A raw order is a function from the fields it has to their values; a field
\* outside its domain is undefined. Null is the JavaScript null.
Null == "<null>"

\* _.get(object, path, defaultValue): the default replaces undefined only,
\* a null value is returned as it is.
Get(o, f, d) == IF f \in DOMAIN o THEN o[f] ELSE d

\* value.toString(): raises a TypeError on null; the identifiers are strings
\* (serial numbers are written as their decimal strings), which toString
\* returns unchanged.
toStringThrows(v) == v = Null

\* transformOrderData raises exactly when one of its two toString() calls
\* is made on null: orderId is null, or orderSerialNumber is null or
\* undefined (its default is null).
transformThrows(o) ==
    \/ toStringThrows(Get(o, "orderId", ""))
    \/ toStringThrows(Get(o, "orderSerialNumber", Null))

\* transformOrderData(externalOrder), for an order it does not raise on
transformOrderData(o) ==
    [externalId           |-> Get(o, "orderId", ""),
     externalSerialNumber |-> Get(o, "orderSerialNumber", Null),
     currency             |-> Get(o, "currencyId", "unknown"),
     orderProducts        |-> [k \in DOMAIN Get(o, "productsResults", <<>>) |->
                                 [productId       |-> o.productsResults[k].productId,
                                  productQuantity |-> o.productsResults[k].productQuantity]],
     orderProductsCost    |-> Get(o, "orderProductsCost", 0),
     status               |-> Get(o, "orderStatus", "unknown"),
     externalCreatedAt    |-> Get(o, "orderAddDate", "unknown"),
     externalUpdatedAt    |-> Get(o, "orderChangeDate", "unknown")]

\* The raw orders the external API returns in this model
RawOrders ==
    { [orderId |-> "A", orderSerialNumber |-> "101", currencyId |-> "EUR",
       orderProductsCost |-> 50, orderStatus |-> "new",
       productsResults |-> <<[productId |-> "p1", productQuantity |-> 2]>>,
       orderAddDate |-> "d1", orderChangeDate |-> "d1"],
      [orderId |-> "A", orderSerialNumber |-> "101", orderStatus |-> "paid"],
      [orderId |-> "B", orderSerialNumber |-> "102", orderStatus |-> ""],
      [orderSerialNumber |-> "103", orderStatus |-> "new"],
      [orderId |-> Null, orderSerialNumber |-> "104"],
      [orderId |-> "B", orderStatus |-> "new"] }

RECURSIVE SeqsUpTo(_, _)
SeqsUpTo(S, n) ==
    IF n = 0 THEN {<<>>}
    ELSE LET shorter == SeqsUpTo(S, n - 1)
         IN  shorter \cup {Append(q, x) : q \in {r \in shorter : Len(r) = n - 1}, x \in S}

OrderLists == SeqsUpTo(RawOrders, MaxLen)

\* ------------------------------------------------------------------------
\* Store: the orders collection behind orderModel
\* (src/app/models/order-model.js, src/unnamed/part_016)
\* ------------------------------------------------------------------------

\* collection.findOne({externalId}): the matching documents
findByExternalId(docs, externalId) == {d \in docs : d.externalId = externalId}

\* The orders collection without its unique index: nothing is rejected
noUniqueIndex(docs, doc) == FALSE

\* The unique index externalId_1 rejects an insert of a second document
\* with the same externalId (E11000 duplicate key).
uniqueIndexRejects(docs, doc) == findByExternalId(docs, doc.externalId) # {}

\* orderModel.create: the document it inserts. A field the driver is given
\* as undefined is stored as null.
newOrder(orderData, id, now) ==
    [_id             |-> id,
     externalId      |-> orderData.externalId,
     orderNumber     |-> Get(orderData, "orderNumber", Null),
     customerEmail   |-> Get(orderData, "customerEmail", Null),
     customerName    |-> Get(orderData, "customerName", Null),
     totalAmount     |-> Get(orderData, "totalAmount", 0),
     currency        |-> IF orderData.currency = "" THEN "PLN" ELSE orderData.currency,
     status          |-> IF orderData.status = "" THEN "pending" ELSE orderData.status,
     orderDate       |-> Get(orderData, "orderDate", now),
     items           |-> Get(orderData, "items", <<>>),
     shippingAddress |-> Get(orderData, "shippingAddress", <<>>),
     billingAddress  |-> Get(orderData, "billingAddress", <<>>),
     paymentMethod   |-> Get(orderData, "paymentMethod", ""),
     shippingMethod  |-> Get(orderData, "shippingMethod", ""),
     notes           |-> Get(orderData, "notes", ""),
     externalData    |-> Get(orderData, "externalData", <<>>),
     createdAt       |-> now,
     updatedAt       |-> now]

\* A $set that merges: a currency the new order does not give ("unknown")
\* is left out, so the stored currency stays
setFieldsMerges(doc, updateData, now) ==
    ("updatedAt" :> now)
      @@ [f \in {g \in DOMAIN updateData :
                   g # "currency" \/ updateData.currency # "unknown"} |-> updateData[f]]
      @@ doc

\* A $set that also stamps createdAt, as an insert does
setFieldsStampsCreation(doc, updateData, now) ==
    ("updatedAt" :> now) @@ ("createdAt" :> now) @@ updateData @@ doc

\* orderModel.updateByExternalId: {$set: {...updateData, updatedAt}} applied
\* to a document; fields that are not set keep their value.
setFields(doc, updateData, now) ==
    ("updatedAt" :> now) @@ updateData @@ doc

\* findOneAndUpdate({externalId}, {$set: ...}): one matching document is
\* updated in place, no document is added.
findOneAndUpdate(docs, externalId, updateData, now) ==
    IF findByExternalId(docs, externalId) = {} THEN docs
    ELSE LET d == CHOOSE x \in findByExternalId(docs, externalId) : TRUE
         IN  (docs \ {d}) \cup {setFields(d, updateData, now)}

\* new Date(): the clock shows the same instant as before or a later one
Instants == {t \in {clock, clock + 1} : t <= MaxClock}

\* ------------------------------------------------------------------------
\* Persistence gate: ExternalApiService.saveOrdersToDatabase
\* (src/unnamed/part_013)
\* ------------------------------------------------------------------------

MsgMissingId == "Order missing external ID"
MsgTransform == "Failed to save order: Cannot read properties of null"
MsgStore     == "Failed to save order: store error"
MsgDuplicate == "Failed to save order: E11000 duplicate key"

\* A saveOrdersToDatabase call that has not been made yet
idleBatch ==
    [pc |-> "idle", updateExisting |-> TRUE, idx |-> 0,
     total |-> 0, created |-> 0, updated |-> 0, skipped |-> 0, errors |-> <<>>]

\* The loop taking its orders from the end of the list
currentFromTheEnd(b) ==
    transformOrderData(fetched[Len(fetched) + 1 - batch[b].idx])

\* The order the loop of batch b is at, transformed
current(b) == transformOrderData(fetched[batch[b].idx])

\* End of one loop iteration (tickProgress, then the next order or the
\* return of the results) applied to the batch record r.
nextItem(r) ==
    [r EXCEPT !.pc = IF r.idx >= Len(fetched) THEN "done" ELSE "loop",
              !.idx = IF r.idx >= Len(fetched) THEN r.idx ELSE r.idx + 1]

\* A catch block that gives up the batch: the message, then the error is
\* raised to the caller of saveOrdersToDatabase
catchItemRaises(r, msg) ==
    [r EXCEPT !.errors = Append(@, msg), !.pc = "raised"]

\* The catch block of the loop: one message, then the next iteration
catchItem(r, msg) ==
    nextItem([r EXCEPT !.errors = Append(@, msg)])

\* saveOrdersToDatabase(orders, {updateExisting}) up to the loop: the
\* zeroed results with total = orders.length, returned at once for an
\* empty list. The calls are numbered in the order they are made.
saveOrdersToDatabase(b, updateExisting) ==
    /\ batch[b].pc = "idle"
    /\ \A c \in Batches : c < b => batch[c].pc # "idle"
    /\ batch' = [batch EXCEPT ![b] =
                   [pc |-> IF fetched = <<>> THEN "done" ELSE "loop",
                    updateExisting |-> updateExisting,
                    idx |-> IF fetched = <<>> THEN 0 ELSE 1,
                    total |-> Len(fetched), created |-> 0, updated |-> 0,
                    skipped |-> 0, errors |-> <<>>]]
    /\ UNCHANGED <<store, nextId, clock, fetched>>
    /\ UNCHANGED <<schedVars, jobVars>>

\* One iteration up to its first await: the transform, the check of the
\* external id, and the call of orderModel.getByExternalId.
processItem(b) ==
    /\ batch[b].pc = "loop"
    /\ LET r == batch[b]
           o == fetched[r.idx]
       IN  batch' = [batch EXCEPT ![b] =
             IF transformThrows(o)
             THEN catchItem(r, MsgTransform)
             ELSE IF transformOrderData(o).externalId = ""
             THEN nextItem([r EXCEPT !.skipped = @ + 1,
                                     !.errors = Append(@, MsgMissingId)])
             ELSE [r EXCEPT !.pc = "lookup"]]
    /\ UNCHANGED <<store, nextId, clock, fetched>>
    /\ UNCHANGED <<schedVars, jobVars>>

\* The branch on the lookup with a skip that is not counted
afterLookupSkipUncounted(r, existing) ==
    IF existing # {}
    THEN IF r.updateExisting
         THEN [r EXCEPT !.pc = "update"]
         ELSE nextItem(r)
    ELSE [r EXCEPT !.pc = "create"]

\* The branch on the lookup with the updateExisting option ignored
afterLookupIgnoresOption(r, existing) ==
    IF existing # {}
    THEN [r EXCEPT !.pc = "update"]
    ELSE [r EXCEPT !.pc = "create"]

\* The branch taken on the result of the lookup
afterLookup(r, existing) ==
    IF existing # {}
    THEN IF r.updateExisting
         THEN [r EXCEPT !.pc = "update"]
         ELSE nextItem([r EXCEPT !.skipped = @ + 1])
    ELSE [r EXCEPT !.pc = "create"]

\* orderModel.getByExternalId settles: it rejects (ok = FALSE), or returns
\* the stored order or null; the loop goes on to the update, the create or
\* the skip.
getByExternalIdReturns(b, ok) ==
    /\ batch[b].pc = "lookup"
    /\ batch' = [batch EXCEPT ![b] =
                   IF ok
                   THEN afterLookup(batch[b], findByExternalId(store, current(b).externalId))
                   ELSE catchItem(batch[b], MsgStore)]
    /\ UNCHANGED <<store, nextId, clock, fetched>>
    /\ UNCHANGED <<schedVars, jobVars>>

\* orderModel.create settles: it rejects without a write (ok = FALSE, or
\* the unique index refuses the document), or the document is inserted and
\* created is counted.
createReturns(b, ok) ==
    /\ batch[b].pc = "create"
    /\ \E now \in Instants :
         LET doc == newOrder(current(b), nextId, now)
         IN  IF ~ok
             THEN /\ batch' = [batch EXCEPT ![b] = catchItem(@, MsgStore)]
                  /\ UNCHANGED <<store, nextId, clock>>
             ELSE IF uniqueIndexRejects(store, doc)
             THEN /\ batch' = [batch EXCEPT ![b] = catchItem(@, MsgDuplicate)]
                  /\ UNCHANGED <<store, nextId, clock>>
             ELSE /\ store' = store \cup {doc}
                  /\ nextId' = nextId + 1
                  /\ clock' = now
                  /\ batch' = [batch EXCEPT ![b] = nextItem([@ EXCEPT !.created = @ + 1])]
    /\ UNCHANGED fetched
    /\ UNCHANGED <<schedVars, jobVars>>

\* orderModel.updateByExternalId settles: it rejects without a write, or
\* the $set is applied and updated is counted.
updateByExternalIdReturns(b, ok) ==
    /\ batch[b].pc = "update"
    /\ \E now \in Instants :
         IF ~ok
         THEN /\ batch' = [batch EXCEPT ![b] = catchItem(@, MsgStore)]
              /\ UNCHANGED <<store, clock>>
         ELSE /\ store' = findOneAndUpdate(store, current(b).externalId, current(b), now)
              /\ clock' = now
              /\ batch' = [batch EXCEPT ![b] = nextItem([@ EXCEPT !.updated = @ + 1])]
    /\ UNCHANGED <<nextId, fetched>>
    /\ UNCHANGED <<schedVars, jobVars>>

BatchNext ==
    \/ \E b \in Batches, u \in BOOLEAN : saveOrdersToDatabase(b, u)
    \/ \E b \in Batches : processItem(b)
    \/ \E b \in Batches, ok \in BOOLEAN : getByExternalIdReturns(b, ok)
    \/ \E b \in Batches, ok \in BOOLEAN : createReturns(b, ok)
    \/ \E b \in Batches, ok \in BOOLEAN : updateByExternalIdReturns(b, ok)

\* ------------------------------------------------------------------------
\* External order fetcher and the download-and-save calls
\* (src/unnamed/part_013, ExternalApiService)
\* ------------------------------------------------------------------------

ErrNotInitialized == "Idosell API client not initialized. Check your credentials."
ErrValidation     == "orderSerialNumbers must be a non-empty array"
ErrDownload       == "Failed to download orders"
ErrPagination     == "Failed to get pagination info"

\* The fault the order search answers with when it finds nothing
EmptyResultCode   == 2
EmptyResultString == "Wyszukiwarka zamowien: zwrocono pusty wynik"

\* error.cause of a rejected request: the fault of the API, or nothing for
\* a timeout or a network error.
Faults ==
    { [kind |-> "fault", cause |-> [faultCode |-> EmptyResultCode, faultString |-> EmptyResultString]],
      [kind |-> "fault", cause |-> [faultCode |-> EmptyResultCode, faultString |-> "Access denied"]],
      [kind |-> "fault", cause |-> [faultCode |-> 1, faultString |-> EmptyResultString]],
      [kind |-> "fault"] }

\* The two orders the external API holds in the download model
ApiOrders ==
    {o \in RawOrders : /\ {"orderId", "orderSerialNumber"} \subseteq DOMAIN o
                       /\ o.orderId # Null
                       /\ Get(o, "orderStatus", "") # "paid"}

\* Answers of the order search to a time-window or serial-number request
SearchReplies ==
    Faults \cup {[kind |-> "ok"]}
           \cup {[kind |-> "ok", Results |-> q] : q \in SeqsUpTo(ApiOrders, MaxLen)}

\* Answers to the pagination request page(1, 100)
InfoReplies ==
    Faults \cup {[kind |-> "ok"]}
           \cup {[kind |-> "ok", resultsNumberAll |-> n, resultsNumberPage |-> n] : n \in 0..MaxPages}

\* Answers to the request of one page
PageReplies ==
    Faults \cup {[kind |-> "ok"]}
           \cup {[kind |-> "ok", Results |-> q] : q \in SeqsUpTo(ApiOrders, 1)}

\* The arguments given as orderSerialNumbers
IdArgs ==
    { [isArray |-> FALSE, items |-> <<>>],
      [isArray |-> TRUE,  items |-> <<>>],
      [isArray |-> TRUE,  items |-> <<"101">>],
      [isArray |-> TRUE,  items |-> <<"101", "102">>] }

\* What a fetch operation hands to its caller
returns(orders) == [raised |-> FALSE, error |-> "", orders |-> orders]
raises(error)   == [raised |-> TRUE, error |-> error, orders |-> <<>>]

\* The condition of the catch block of downloadOrdersByTimeWindow
isEmptyResultError(error) ==
    /\ "cause" \in DOMAIN error
    /\ error.cause.faultCode = EmptyResultCode
    /\ error.cause.faultString = EmptyResultString

\* downloadOrdersByTimeWindow with every fault passed on to the caller
downloadOrdersByTimeWindowStrict(reply) ==
    IF reply.kind = "ok" THEN returns(Get(reply, "Results", <<>>))
    ELSE raises(ErrDownload)

\* downloadOrdersByTimeWindow after the search settles: Results || [], the
\* empty list for the empty-result fault, an error for every other fault.
downloadOrdersByTimeWindow(reply) ==
    IF reply.kind = "ok" THEN returns(Get(reply, "Results", <<>>))
    ELSE IF isEmptyResultError(reply) THEN returns(<<>>)
    ELSE raises(ErrDownload)

\* downloadOrdersBySerialNumbers and downloadOrdersWithPagination after the
\* search settles: Results || [], an error for every fault.
downloadOrders(reply) ==
    IF reply.kind = "ok" THEN returns(Get(reply, "Results", <<>>))
    ELSE raises(ErrDownload)

\* The results object of saveOrdersToDatabase for no orders
zeroed == [total |-> 0, created |-> 0, updated |-> 0, skipped |-> 0, errors |-> <<>>]

\* The results object batch b returns
resultsOf(b) ==
    [total |-> batch[b].total, created |-> batch[b].created, updated |-> batch[b].updated,
     skipped |-> batch[b].skipped, errors |-> batch[b].errors]

\* A download call that has not been made yet; caller is the scheduler
\* invocation that makes it, 0 for a call made on the service directly.
idleJob ==
    [op |-> "none", pc |-> "idle", caller |-> 0, ids |-> [isArray |-> FALSE, items |-> <<>>],
     reply |-> [kind |-> "none"], requests |-> 0, page |-> 0, totalPages |-> 0,
     orders |-> <<>>, error |-> "", result |-> zeroed,
     lookback |-> 0, minutes |-> 0, query |-> {}, pages |-> <<>>, delays |-> 0]

\* saveOrdersToDatabase without its early return for an empty list
startedBatchNoEarlyReturn(orders, updateExisting) ==
    [pc |-> "loop", updateExisting |-> updateExisting, idx |-> 1,
     total |-> Len(orders), created |-> 0, updated |-> 0, skipped |-> 0, errors |-> <<>>]

\* saveOrdersToDatabase(orders, {updateExisting}) up to the loop, as a
\* record of the call
startedBatch(orders, updateExisting) ==
    [pc |-> IF orders = <<>> THEN "done" ELSE "loop",
     updateExisting |-> updateExisting,
     idx |-> IF orders = <<>> THEN 0 ELSE 1,
     total |-> Len(orders), created |-> 0, updated |-> 0, skipped |-> 0, errors |-> <<>>]

\* The download calls are made one after the other.
nextJob(j) ==
    /\ job[j].pc = "idle"
    /\ \A k \in Batches : k < j => job[k].pc \in {"returned", "raised"}

\* downloadOrdersBySerialNumbers(ids) without the validation of its argument
downloadOrdersBySerialNumbersUnvalidated(j, ids) ==
    /\ nextJob(j)
    /\ job' = [job EXCEPT ![j] =
                 IF ~apiReady
                 THEN [@ EXCEPT !.op = "serialNumbers", !.ids = ids, !.pc = "raised",
                                !.error = ErrNotInitialized]
                 ELSE [@ EXCEPT !.op = "serialNumbers", !.ids = ids, !.pc = "search",
                                !.requests = @ + 1]]
    /\ UNCHANGED <<schedVars, batchVars>>

\* downloadOrdersBySerialNumbers(ids) up to its await: the configuration
\* check, the validation of the argument, then the request.
downloadOrdersBySerialNumbers(j, ids) ==
    /\ nextJob(j)
    /\ job' = [job EXCEPT ![j] =
                 IF ~apiReady
                 THEN [@ EXCEPT !.op = "serialNumbers", !.ids = ids, !.pc = "raised",
                                !.error = ErrNotInitialized]
                 ELSE IF ~ids.isArray \/ ids.items = <<>>
                 THEN [@ EXCEPT !.op = "serialNumbers", !.ids = ids, !.pc = "raised",
                                !.error = ErrValidation]
                 ELSE [@ EXCEPT !.op = "serialNumbers", !.ids = ids, !.pc = "search",
                                !.requests = @ + 1]]
    /\ UNCHANGED <<schedVars, batchVars>>

\* The clock of moment.utc() counts milliseconds; one second and one
\* minute of it
MsPerSecond == 1000
MsPerMinute == 60000

\* The lookback used when neither the option nor the configuration gives one
DefaultLookback == 60

\* The first instant at which a clock is read for a window: the last
\* millisecond of a second
FirstMoment == 100 * MsPerMinute - 1

\* moment.utc(), read one after the other: the second reading is the first
\* or up to MaxDrift milliseconds later
ClockReadings ==
    {now \in (FirstMoment .. FirstMoment + MaxDrift) \X
             (FirstMoment .. FirstMoment + MaxDrift) : now[1] <= now[2]}

\* config.scheduler.lookbackMinutes (+process.env.SCHEDULER_LOOKBACK_MINUTES)
ConfigLookbacks == {0, 2}

\* The options of a time-window call: without minutes, or with a number
WindowOptions ==
    {[dateType |-> "add"]} \cup {[dateType |-> "add", minutes |-> m] : m \in -1 .. 1}

\* formatDateTime(date): 'YYYY-MM-DD HH:mm:ss' in UTC names the whole
\* second the instant lies in; the milliseconds are dropped. The string is
\* written as the number of that second.
formatDateTime(date) == date \div MsPerSecond

\* moment.subtract(minutes, 'minutes')
subtract(date, minutes) == date - minutes * MsPerMinute

\* createOrdersRange({dateFrom, dateTo, dateType}).ordersRange
createOrdersRange(dateFrom, dateTo) ==
    [ordersDateBegin |-> formatDateTime(dateFrom),
     ordersDateEnd   |-> formatDateTime(dateTo)]

\* The lookback a time-window call is asked for: options.minutes, or the
\* configured value when the option is undefined
askedLookback(options, configured) == Get(options, "minutes", configured)

\* const {minutes = config.scheduler.lookbackMinutes || 60} = options
minutesOf(options, configured) ==
    Get(options, "minutes", IF configured = 0 THEN DefaultLookback ELSE configured)

\* downloadOrdersByTimeWindow(options) up to its await, as a change of the
\* record r of the call: the configuration check, dateTo from one reading
\* of the clock (now1), dateFrom from a second reading (now2) less the
\* minutes, and the request of that range.
windowCalled(r, options, configured, now1, now2) ==
    LET minutes  == minutesOf(options, configured)
        dateTo   == now1
        dateFrom == subtract(now2, minutes)
        called   == [r EXCEPT !.op = "timeWindow", !.minutes = minutes,
                              !.lookback = askedLookback(options, configured)]
    IN  IF ~apiReady
        THEN [called EXCEPT !.pc = "raised", !.error = ErrNotInitialized]
        ELSE [called EXCEPT !.pc = "search", !.requests = @ + 1,
                            !.query = {createOrdersRange(dateFrom, dateTo)}]

\* The lookback the scheduler is configured with in the runs of the
\* download and pipeline specifications
ScheduledLookback == 2

\* The record of a time-window call after its first stretch, made by the
\* scheduler with its configured lookback while the clock stands still
timeWindowCalled(r) ==
    windowCalled(r, [dateType |-> "add", minutes |-> ScheduledLookback],
                 ScheduledLookback, FirstMoment, FirstMoment)

\* downloadOrdersByTimeWindow(options) called on the service: any options,
\* any configured lookback, and a clock that may advance between its two
\* readings
downloadOrdersByTimeWindowCalled(j, options, configured, now) ==
    /\ nextJob(j)
    /\ job' = [job EXCEPT ![j] = windowCalled(@, options, configured, now[1], now[2])]
    /\ UNCHANGED <<schedVars, batchVars>>

\* downloadAndSaveNewlyAddedOrdersFromScheduler() up to its await:
\* downloadOrdersByTimeWindow checks the configuration and sends the search.
downloadAndSaveNewlyAddedOrdersFromScheduler(j) ==
    /\ nextJob(j)
    /\ job' = [job EXCEPT ![j] = timeWindowCalled(@)]
    /\ UNCHANGED <<schedVars, batchVars>>

\* downloadAndSaveAllOrders() up to its await: downloadAllOrders checks the
\* configuration, getPaginationInfo sends page(1, 100).
downloadAndSaveAllOrders(j) ==
    /\ nextJob(j)
    /\ job' = [job EXCEPT ![j] =
                 IF ~apiReady
                 THEN [@ EXCEPT !.op = "allOrders", !.pc = "raised", !.error = ErrNotInitialized]
                 ELSE [@ EXCEPT !.op = "allOrders", !.pc = "info", !.requests = @ + 1]]
    /\ UNCHANGED <<schedVars, batchVars>>

\* The caller goes on with the fetched orders: saveOrdersToDatabase is
\* called and awaited (r is the record of the download call at that point).
saveFetched(j, r, orders, updateExisting) ==
    /\ job' = [job EXCEPT ![j] = [r EXCEPT !.orders = orders, !.pc = "saving"]]
    /\ fetched' = orders
    /\ batch' = [batch EXCEPT ![j] = startedBatch(orders, updateExisting)]
    /\ UNCHANGED <<store, nextId, clock>>

\* The search of a serial-number or time-window call settles. The serial
\* number call returns the orders or raises. The time-window call raises,
\* returns the zeroed result at once when no order was found, or calls
\* saveOrdersToDatabase.
searchReturns(j, reply, updateExisting) ==
    /\ job[j].pc = "search"
    /\ reply \in SearchReplies
    /\ LET r == [job[j] EXCEPT !.reply = reply]
           out == IF job[j].op = "timeWindow"
                  THEN downloadOrdersByTimeWindow(reply)
                  ELSE downloadOrders(reply)
       IN  IF out.raised
           THEN /\ job' = [job EXCEPT ![j] = [r EXCEPT !.pc = "raised", !.error = out.error]]
                /\ UNCHANGED batchVars
           ELSE IF job[j].op = "serialNumbers" \/ out.orders = <<>>
           THEN /\ job' = [job EXCEPT ![j] = [r EXCEPT !.pc = "returned", !.orders = out.orders]]
                /\ UNCHANGED batchVars
           ELSE saveFetched(j, r, out.orders, updateExisting)
    /\ UNCHANGED schedVars

\* getPaginationInfo settles: a fault is raised through downloadAllOrders
\* and downloadAndSaveAllOrders; with no orders (or no pages) the empty list
\* is handed to saveOrdersToDatabase; else the first page is requested.
paginationInfoReturns(j, reply) ==
    /\ job[j].pc = "info"
    /\ reply \in InfoReplies
    /\ LET r == [job[j] EXCEPT !.reply = reply]
           totalOrders == Get(reply, "resultsNumberAll", 0)
           totalPages  == Get(reply, "resultsNumberPage", 0)
       IN  IF reply.kind # "ok"
           THEN /\ job' = [job EXCEPT ![j] = [r EXCEPT !.pc = "raised", !.error = ErrPagination]]
                /\ UNCHANGED batchVars
           ELSE IF totalOrders = 0 \/ totalPages = 0
           THEN saveFetched(j, r, <<>>, TRUE)
           ELSE /\ job' = [job EXCEPT ![j] =
                             [r EXCEPT !.pc = "page", !.page = 0, !.totalPages = totalPages,
                                       !.requests = @ + 1, !.pages = Append(@, 0)]]
                /\ UNCHANGED batchVars
    /\ UNCHANGED schedVars

\* A sweep whose loop runs while currentPage <= totalPages
pageReturnsOnePageMore(j, reply) ==
    /\ job[j].pc = "page"
    /\ reply \in PageReplies
    /\ LET r == [job[j] EXCEPT !.reply = reply]
           out == downloadOrders(reply)
           allOrders == job[j].orders \o out.orders
       IN  IF out.raised
           THEN /\ job' = [job EXCEPT ![j] = [r EXCEPT !.pc = "raised", !.error = out.error]]
                /\ UNCHANGED batchVars
           ELSE IF job[j].page + 1 <= job[j].totalPages
           THEN /\ job' = [job EXCEPT ![j] =
                             [r EXCEPT !.orders = allOrders, !.page = @ + 1, !.requests = @ + 1,
                                       !.delays = @ + 1, !.pages = Append(@, job[j].page + 1)]]
                /\ UNCHANGED batchVars
           ELSE saveFetched(j, [r EXCEPT !.page = @ + 1], allOrders, TRUE)
    /\ UNCHANGED schedVars

\* A sweep that saves the pages it has when a page fails
pageReturnsKeepsPages(j, reply) ==
    /\ job[j].pc = "page"
    /\ reply \in PageReplies
    /\ LET r == [job[j] EXCEPT !.reply = reply]
           out == downloadOrders(reply)
           allOrders == job[j].orders \o out.orders
       IN  IF out.raised
           THEN /\ job' = [job EXCEPT ![j] = [r EXCEPT !.pc = "raised", !.error = out.error]]
                /\ fetched' = job[j].orders
                /\ batch' = [batch EXCEPT ![j] = startedBatch(job[j].orders, TRUE)]
                /\ UNCHANGED <<store, nextId, clock>>
           ELSE IF job[j].page + 1 < job[j].totalPages
           THEN /\ job' = [job EXCEPT ![j] =
                             [r EXCEPT !.orders = allOrders, !.page = @ + 1, !.requests = @ + 1,
                                       !.delays = @ + 1, !.pages = Append(@, job[j].page + 1)]]
                /\ UNCHANGED batchVars
           ELSE saveFetched(j, [r EXCEPT !.page = @ + 1], allOrders, TRUE)
    /\ UNCHANGED schedVars

\* One page of the sweep settles: a fault is raised through downloadAllOrders
\* and the pages fetched so far are dropped; else the page is added to
\* allOrders and, after the delay of 500 ms that follows every page but the
\* last, the next page is requested, or after the last page
\* saveOrdersToDatabase(allOrders) is called.
pageReturns(j, reply) ==
    /\ job[j].pc = "page"
    /\ reply \in PageReplies
    /\ LET r == [job[j] EXCEPT !.reply = reply]
           out == downloadOrders(reply)
           allOrders == job[j].orders \o out.orders
       IN  IF out.raised
           THEN /\ job' = [job EXCEPT ![j] = [r EXCEPT !.pc = "raised", !.error = out.error]]
                /\ UNCHANGED batchVars
           ELSE IF job[j].page + 1 < job[j].totalPages
           THEN /\ job' = [job EXCEPT ![j] =
                             [r EXCEPT !.orders = allOrders, !.page = @ + 1, !.requests = @ + 1,
                                       !.delays = @ + 1, !.pages = Append(@, job[j].page + 1)]]
                /\ UNCHANGED batchVars
           ELSE saveFetched(j, [r EXCEPT !.page = @ + 1], allOrders, TRUE)
    /\ UNCHANGED schedVars

\* saveOrdersToDatabase has returned its results to the download call,
\* which returns them.
saveResultsReturned(j) ==
    /\ job[j].pc = "saving"
    /\ batch[j].pc = "done"
    /\ job' = [job EXCEPT ![j].pc = "returned", ![j].result = resultsOf(j)]
    /\ UNCHANGED <<schedVars, batchVars>>

DownloadNext ==
    \/ \E j \in Batches, ids \in IdArgs : downloadOrdersBySerialNumbers(j, ids)
    \/ \E j \in Batches : downloadAndSaveNewlyAddedOrdersFromScheduler(j)
    \/ \E j \in Batches : downloadAndSaveAllOrders(j)
    \/ \E j \in Batches, reply \in SearchReplies, u \in BOOLEAN : searchReturns(j, reply, u)
    \/ \E j \in Batches, reply \in InfoReplies : paginationInfoReturns(j, reply)
    \/ \E j \in Batches, reply \in PageReplies : pageReturns(j, reply)
    \/ \E j \in Batches : saveResultsReturned(j)
    \/ \E b \in Batches : processItem(b)
    \/ \E b \in Batches, ok \in BOOLEAN : getByExternalIdReturns(b, ok)
    \/ \E b \in Batches, ok \in BOOLEAN : createReturns(b, ok)
    \/ \E b \in Batches, ok \in BOOLEAN : updateByExternalIdReturns(b, ok)

\* ------------------------------------------------------------------------
\* Specifications
\* ------------------------------------------------------------------------

FetchOutcomes == {"fail", "empty", "orders"}

Next ==
    \/ start
    \/ stop
    \/ \E i \in Calls : tick(i)
    \/ \E i \in Calls : runNow(i)
    \/ \E i \in Calls : runStatusMonitoringNow(i)
    \/ \E i \in Calls, o \in FetchOutcomes : fetchReturns(i, o)
    \/ \E i \in Calls : saveReturns(i)
    \/ \E i \in Calls, ok \in BOOLEAN : jobReturns(i, ok)

\* The scheduler after its constructor (isRunning = false, scheduledTask =
\* null), configured or not; no batch is run on the store.
Init ==
    /\ isRunning = FALSE
    /\ scheduledTask = 0
    /\ timers = <<>>
    /\ apiReady \in BOOLEAN
    /\ pc = [i \in Calls |-> "idle"]
    /\ kind = [i \in Calls |-> "none"]
    /\ fetchCount = 0
    /\ saveCount = 0
    /\ jobCount = 0
    /\ log = {}
    /\ store = {}
    /\ nextId = 1
    /\ clock = 0
    /\ fetched = <<>>
    /\ batch = [b \in Batches |-> idleBatch]
    /\ job = [j \in Batches |-> idleJob]

Spec == Init /\ [][Next]_vars

\* An empty orders collection and a fetched list; the scheduler is at rest.
BatchInit ==
    /\ isRunning = FALSE
    /\ scheduledTask = 0
    /\ timers = <<>>
    /\ apiReady = TRUE
    /\ pc = [i \in Calls |-> "idle"]
    /\ kind = [i \in Calls |-> "none"]
    /\ fetchCount = 0
    /\ saveCount = 0
    /\ jobCount = 0
    /\ log = {}
    /\ store = {}
    /\ nextId = 1
    /\ clock = 0
    /\ fetched \in OrderLists
    /\ batch = [b \in Batches |-> idleBatch]
    /\ job = [j \in Batches |-> idleJob]

BatchSpec == BatchInit /\ [][BatchNext]_vars

\* A caller that awaits saveOrdersToDatabase before it calls it again on
\* the same raw orders
rerun(b, updateExisting) ==
    /\ \A c \in Batches : c < b => batch[c].pc = "done"
    /\ saveOrdersToDatabase(b, updateExisting)

RerunNext ==
    \/ \E b \in Batches, u \in BOOLEAN : rerun(b, u)
    \/ \E b \in Batches : processItem(b)
    \/ \E b \in Batches, ok \in BOOLEAN : getByExternalIdReturns(b, ok)
    \/ \E b \in Batches, ok \in BOOLEAN : createReturns(b, ok)
    \/ \E b \in Batches, ok \in BOOLEAN : updateByExternalIdReturns(b, ok)

RerunSpec == BatchInit /\ [][RerunNext]_vars

\* An empty orders collection and an ExternalApiService, configured or not,
\* on which download calls are made; the scheduler is at rest.
DownloadInit ==
    /\ isRunning = FALSE
    /\ scheduledTask = 0
    /\ timers = <<>>
    /\ apiReady \in BOOLEAN
    /\ pc = [i \in Calls |-> "idle"]
    /\ kind = [i \in Calls |-> "none"]
    /\ fetchCount = 0
    /\ saveCount = 0
    /\ jobCount = 0
    /\ log = {}
    /\ store = {}
    /\ nextId = 1
    /\ clock = 0
    /\ fetched = <<>>
    /\ batch = [b \in Batches |-> idleBatch]
    /\ job = [j \in Batches |-> idleJob]

DownloadSpec == DownloadInit /\ [][DownloadNext]_vars

\* ------------------------------------------------------------------------
\* The scheduler over the download call and the persistence gate: a run
\* that passes the run-guard makes the time-window call, whose orders are
\* saved item by item.
\* ------------------------------------------------------------------------

\* The download call made by scheduler invocation i
jobOf(i) == {j \in Batches : job[j].caller = i}

\* runScheduledTask() up to its first suspension, with the call of
\* downloadAndSaveNewlyAddedOrdersFromScheduler as download call j
runScheduledTaskDownloads(i, k, j) ==
    /\ nextCall(i)
    /\ kind' = [kind EXCEPT ![i] = k]
    /\ IF isRunning
       THEN /\ pc' = [pc EXCEPT ![i] = "skipped"]
            /\ UNCHANGED <<isRunning, fetchCount, job>>
       ELSE /\ job[j].pc = "idle"
            /\ \A c \in Batches : c < j => job[c].pc # "idle"
            /\ isRunning' = TRUE
            /\ pc' = [pc EXCEPT ![i] = "fetching"]
            /\ fetchCount' = IF apiReady THEN fetchCount + 1 ELSE fetchCount
            /\ job' = [job EXCEPT ![j] = timeWindowCalled([@ EXCEPT !.caller = i])]
    /\ UNCHANGED <<scheduledTask, timers, apiReady, saveCount, jobCount, log>>
    /\ UNCHANGED batchVars

\* The cron callback of a started task
tickDownloads(i, j) ==
    /\ \E t \in DOMAIN timers : timers[t] = "started"
    /\ runScheduledTaskDownloads(i, "tick", j)

\* runNow()
runNowDownloads(i, j) == runScheduledTaskDownloads(i, "runNow", j)

\* The search of a scheduler's time-window call settles (updateExisting is
\* true). Two runs that overlap search the same window: the second is
\* answered with the orders the first is saving, with nothing or a fault.
searchOfRunReturns(j, reply) ==
    /\ job[j].caller # 0
    /\ \/ \A b \in Batches : batch[b].pc \in {"idle", "done"}
       \/ Get(reply, "Results", <<>>) \in {<<>>, fetched}
    /\ searchReturns(j, reply, TRUE)

\* The download call of run i has returned or raised: downloadNewOrders logs
\* a failure, its finally block runs, and runScheduledTask goes on with
\* runStatusMonitoringTask() -> runStatusMonitoringJob().
downloadNewOrdersReturns(i) ==
    /\ pc[i] = "fetching"
    /\ \E j \in jobOf(i) :
         /\ job[j].pc \in {"returned", "raised"}
         /\ log' = IF job[j].pc = "raised" THEN log \cup {LogRunFailed} ELSE log
         /\ saveCount' = IF job[j].orders # <<>> THEN saveCount + 1 ELSE saveCount
    /\ pc' = [pc EXCEPT ![i] = "monitoring"]
    /\ isRunning' = FALSE
    /\ jobCount' = jobCount + 1
    /\ UNCHANGED <<scheduledTask, timers, apiReady, kind, fetchCount>>
    /\ UNCHANGED <<batchVars, jobVars>>

\* The answers to a run's search: orders, the empty-result fault, or a
\* request that fails without a fault of the API. The store and the status
\* job answer without failures.
RunReplies ==
    {r \in SearchReplies : IF r.kind = "ok" THEN "Results" \in DOMAIN r
                           ELSE "cause" \notin DOMAIN r \/ isEmptyResultError(r)}

PipelineNext ==
    \/ start
    \/ stop
    \/ \E i \in Calls, j \in Batches : tickDownloads(i, j)
    \/ \E i \in Calls, j \in Batches : runNowDownloads(i, j)
    \/ \E j \in Batches, reply \in RunReplies : searchOfRunReturns(j, reply)
    \/ \E j \in Batches : saveResultsReturned(j)
    \/ \E i \in Calls : downloadNewOrdersReturns(i)
    \/ \E i \in Calls : jobReturns(i, TRUE)
    \/ \E b \in Batches : processItem(b)
    \/ \E b \in Batches : getByExternalIdReturns(b, TRUE)
    \/ \E b \in Batches : createReturns(b, TRUE)
    \/ \E b \in Batches : updateByExternalIdReturns(b, TRUE)

PipelineSpec == Init /\ [][PipelineNext]_vars

\* Time-window calls on the service with every option, configuration and
\* clock reading; their searches are answered as those of the runs are.
WindowNext ==
    \/ \E j \in Batches, options \in WindowOptions, configured \in ConfigLookbacks,
          now \in ClockReadings :
            downloadOrdersByTimeWindowCalled(j, options, configured, now)
    \/ \E j \in Batches, reply \in RunReplies : searchReturns(j, reply, TRUE)
    \/ \E j \in Batches : saveResultsReturned(j)
    \/ \E b \in Batches : processItem(b)
    \/ \E b \in Batches : getByExternalIdReturns(b, TRUE)
    \/ \E b \in Batches : createReturns(b, TRUE)
    \/ \E b \in Batches : updateByExternalIdReturns(b, TRUE)

WindowSpec == DownloadInit /\ [][WindowNext]_vars

\* ------------------------------------------------------------------------
\* Fairness: every call the scheduler awaits settles (the external API
\* and the store answer or fail), so a settling step is taken as long as
\* one is possible.
\* ------------------------------------------------------------------------

settle ==
    \E i \in Calls :
        \/ \E o \in FetchOutcomes : fetchReturns(i, o)
        \/ saveReturns(i)
        \/ \E ok \in BOOLEAN : jobReturns(i, ok)

FairSpec == Init /\ [][Next]_vars /\ WF_vars(settle)

\* Every public method of the scheduler that runs a task, with the direct
\* call of runStatusMonitoringTask() and runAllTasksNow() among them
EntryNext ==
    \/ start
    \/ stop
    \/ \E i \in Calls : tick(i)
    \/ \E i \in Calls : runNow(i)
    \/ \E i \in Calls : runStatusMonitoringNow(i)
    \/ \E i \in Calls : runStatusMonitoringTask(i)
    \/ \E i \in Calls : runAllTasksNow(i)
    \/ \E i \in Calls, o \in FetchOutcomes : fetchReturns(i, o)
    \/ \E i \in Calls : saveReturns(i)
    \/ \E i \in Calls, ok \in BOOLEAN : jobReturns(i, ok)
    \/ \E i \in Calls, ok \in BOOLEAN : runStatusMonitoringTaskReturns(i, ok)

EntrySpec == Init /\ [][EntryNext]_vars

\* ------------------------------------------------------------------------
\* Run-guard claims
\* ------------------------------------------------------------------------

\* The download-and-save of new orders of invocation i is in flight
downloading(i) == pc[i] \in {"fetching", "saving"}

\* The status-monitoring job of invocation i is in flight
monitoring(i) == pc[i] = "monitoring"

\* Invocation i has passed the run-guard and has not returned
inFlight(i) == pc[i] \in {"fetching", "saving", "monitoring"}

\* C1: at most one sync batch (download-and-save of new orders) is in
\* flight at any instant, for every interleaving of ticks, runNow() and
\* runStatusMonitoringNow().
C1_AtMostOneBatch ==
    \A i, j \in Calls : downloading(i) /\ downloading(j) => i = j

\* C2: a status-monitoring pass never overlaps a sync batch or another
\* status-monitoring pass.
C2_MonitoringExclusive ==
    \A i, j \in Calls :
        monitoring(i) /\ (downloading(j) \/ monitoring(j)) => i = j

\* C3: while a sync batch or a status-monitoring pass started through the
\* guarded entry points is in flight, getStatus().isRunning is true.
C3_RunningWhileInFlight ==
    \A i \in Calls : downloading(i) \/ monitoring(i) => getStatus.isRunning

\* C4: a call of runScheduledTask() (tick or runNow()) or
\* runStatusMonitoringNow() made while isRunning is true is skipped: it
\* sends no fetch, calls no save, starts no status-monitoring job, leaves
\* the store and isRunning = true as they are, moves no other invocation,
\* and a skipped call never starts a run later.
C4_SkipIsNoOp ==
    [][\A i \in Calls :
         /\ (pc[i] = "idle" /\ pc'[i] # "idle" /\ isRunning) =>
              /\ pc'[i] = "skipped"
              /\ isRunning'
              /\ fetchCount' = fetchCount
              /\ saveCount' = saveCount
              /\ jobCount' = jobCount
              /\ store' = store
              /\ \A j \in Calls \ {i} : pc'[j] = pc[j]
         /\ (pc[i] = "skipped" => pc'[i] = "skipped")]_vars

\* A tick, a runNow() and a runStatusMonitoringNow() have been skipped or
\* are to be: here one call is in flight and a later one was skipped.
C4_Witness ==
    \E i, j \in Calls :
        /\ inFlight(i) /\ isRunning
        /\ pc[j] = "skipped"
        /\ kind[j] \in {"tick", "runNow", "statusNow"}

\* C5: every run that passed the run-guard ends (given that every awaited
\* call settles): from some point on no run is in flight; and whenever no
\* run is in flight the run-guard is released, whether the download or the
\* job succeeded or failed.
C5_GuardReleased ==
    /\ <>[](\A i \in Calls : ~inFlight(i))
    /\ []((\A i \in Calls : ~inFlight(i)) => ~isRunning)

\* A scheduled run whose download and whose job both failed has ended, no
\* run is in flight and the guard is released.
C5_Witness ==
    /\ \E i \in Calls : pc[i] = "done" /\ kind[i] \in {"tick", "runNow"}
    /\ {LogRunFailed, LogMonitoringFailed, LogTasksFailed} \subseteq log
    /\ \A i \in Calls : ~inFlight(i)
    /\ ~isRunning


\* ------------------------------------------------------------------------
\* Persistence claims
\* ------------------------------------------------------------------------

\* The messages of batch b
errorsOf(b) == {batch[b].errors[k] : k \in DOMAIN batch[b].errors}

\* A raw order that the loop gives up before the lookup
transformFails(o) ==
    transformThrows(o) \/ transformOrderData(o).externalId = ""

\* C6: at most one stored record exists per distinct externalId, in every
\* reachable state, also when two batches interleave on one externalId.
C6_UniqueExternalId ==
    \A d1, d2 \in store : d1.externalId = d2.externalId => d1 = d2

\* Two batches raced on one externalId: both looked it up before either
\* created it, one create was stored and the other was refused.
C6_Witness ==
    /\ \E b \in Batches : MsgDuplicate \in errorsOf(b)
    /\ \E b \in Batches : batch[b].created > 0
    /\ store # {}

\* C7: after the lookup by externalId, an order with no stored record is
\* created (exactly one record more, created counted); an order with a
\* stored record is updated when updateExisting is true (that record takes
\* the new values, updated counted) and is skipped without a write when
\* updateExisting is false (store unchanged, skipped counted). Steps in
\* which the store call fails are the matter of C9.
C7_UpsertOutcome ==
    [][\A b \in Batches :
         LET r   == batch[b]
             r2  == batch'[b]
             id  == current(b).externalId
             sameCounts == /\ r2.created = r.created
                           /\ r2.updated = r.updated
                           /\ r2.skipped = r.skipped
         IN
         /\ (r.pc = "lookup" /\ r2 # r /\ r2.errors = r.errors) =>
              /\ store' = store
              /\ IF findByExternalId(store, id) = {}
                 THEN r2.pc = "create" /\ sameCounts
                 ELSE IF r.updateExisting
                 THEN r2.pc = "update" /\ sameCounts
                 ELSE /\ r2.pc \in {"loop", "done"}
                      /\ r2.skipped = r.skipped + 1
                      /\ r2.created = r.created
                      /\ r2.updated = r.updated
         /\ (r.pc = "create" /\ r2 # r /\ r2.errors = r.errors) =>
              /\ \E d \in store' \ store :
                   /\ store' = store \cup {d}
                   /\ d.externalId = id
              /\ Cardinality(store') = Cardinality(store) + 1
              /\ r2.created = r.created + 1
              /\ r2.updated = r.updated
              /\ r2.skipped = r.skipped
         /\ (r.pc = "update" /\ r2 # r /\ r2.errors = r.errors) =>
              /\ \E d \in store, d2 \in store' :
                   /\ d.externalId = id
                   /\ d2._id = d._id
                   /\ store' = (store \ {d}) \cup {d2}
                   /\ \A f \in DOMAIN current(b) : d2[f] = current(b)[f]
              /\ r2.updated = r.updated + 1
              /\ r2.created = r.created
              /\ r2.skipped = r.skipped]_vars

\* The three outcomes have happened: the first batch created a record and
\* updated it, the second batch, with updateExisting = false, skipped the
\* stored records without an error.
C7_Witness ==
    /\ batch[1].created > 0 /\ batch[1].updated > 0
    /\ batch[2].pc = "done" /\ ~batch[2].updateExisting
    /\ batch[2].skipped > 0 /\ batch[2].errors = <<>>

\* A stored document without the instants the clock gave it
timeless(d) ==
    [f \in DOMAIN d \ {"createdAt", "updatedAt", "orderDate"} |-> d[f]]

\* The collection after one run of the loop over the raw orders with
\* updateExisting = true and no store failure, from the documents docs and
\* the next id.
RECURSIVE storeAfterRun(_, _, _)
storeAfterRun(docs, id, orders) ==
    IF orders = <<>> THEN docs
    ELSE LET o == Head(orders)
             t == transformOrderData(o)
         IN  IF transformFails(o)
             THEN storeAfterRun(docs, id, Tail(orders))
             ELSE IF findByExternalId(docs, t.externalId) = {}
             THEN storeAfterRun(docs \cup {newOrder(t, id, 0)}, id + 1, Tail(orders))
             ELSE storeAfterRun(findOneAndUpdate(docs, t.externalId, t, 0), id, Tail(orders))

\* C8: running the batch twice on the same raw orders with updateExisting =
\* true leaves every stored record as one run leaves it (the instants set
\* aside), and the second run reports created = 0 and updated for every
\* order the first run stored.
C8_RerunIdempotent ==
    ( /\ batch[1].pc = "done" /\ batch[2].pc = "done"
      /\ batch[1].updateExisting /\ batch[2].updateExisting
      /\ \A b \in Batches : errorsOf(b) \cap {MsgStore, MsgDuplicate} = {} )
    => /\ {timeless(d) : d \in store} =
          {timeless(d) : d \in storeAfterRun({}, 1, fetched)}
       /\ batch[2].created = 0
       /\ batch[2].updated = batch[1].created + batch[1].updated

\* C9: when the lookup, the create or the update of one item fails, one
\* message is appended to errors, created and updated are not incremented,
\* the batch does not raise but goes on with the next item, and a batch
\* ends only after its last item.
C9_StoreFailureIsPerItem ==
    /\ [][\A b \in Batches :
            LET r  == batch[b]
                r2 == batch'[b]
            IN  (r.pc \in {"lookup", "create", "update"} /\ r2.errors # r.errors) =>
                  /\ Len(r2.errors) = Len(r.errors) + 1
                  /\ r2.created = r.created
                  /\ r2.updated = r.updated
                  /\ IF r.idx < Len(fetched)
                     THEN r2.pc = "loop" /\ r2.idx = r.idx + 1
                     ELSE r2.pc = "done"]_vars
    /\ [](\A b \in Batches :
            /\ batch[b].pc # "raised"
            /\ batch[b].pc = "done" => batch[b].idx = Len(fetched))

\* The store failed on the first order (id A, nothing of it is stored) and
\* the batch went on to create the second (id B).
C9_Witness ==
    /\ Len(fetched) = 2
    /\ ~transformFails(fetched[1]) /\ fetched[1].orderId = "A"
    /\ batch[1].pc = "done" /\ batch[2].pc = "idle"
    /\ batch[1].errors = <<MsgStore>>
    /\ batch[1].created = 1
    /\ \E d \in store : d.externalId = "B"
    /\ \A d \in store : d.externalId = "B"

\* C10: for a raw order whose transform fails (it raises, or it yields no
\* externalId) the loop increments skipped by one, appends one message,
\* writes nothing and goes on with the next order.
C10_TransformFailureSkips ==
    [][\A b \in Batches :
         LET r  == batch[b]
             r2 == batch'[b]
         IN  (r.pc = "loop" /\ r2 # r /\ transformFails(fetched[r.idx])) =>
               /\ r2.skipped = r.skipped + 1
               /\ Len(r2.errors) = Len(r.errors) + 1
               /\ store' = store
               /\ r2.created = r.created
               /\ r2.updated = r.updated
               /\ r2.pc \in {"loop", "done"}]_vars

\* C11: for every raw order with any optional fields missing or null, the
\* transform does not raise; it yields a record with a non-empty externalId
\* or a transform error is reported for the order; no record with an empty
\* identity is ever stored.
C11_TransformNullSafe ==
    /\ [][\A b \in Batches :
            LET r  == batch[b]
                r2 == batch'[b]
            IN  (r.pc = "loop" /\ r2 # r) =>
                  /\ ~transformThrows(fetched[r.idx])
                  /\ \/ /\ transformOrderData(fetched[r.idx]).externalId # ""
                        /\ r2.pc = "lookup"
                     \/ r2.errors = Append(r.errors, MsgMissingId)]_vars
    /\ [](\A d \in store : d.externalId \notin {"", Null})

\* ------------------------------------------------------------------------
\* Fetch claims
\* ------------------------------------------------------------------------

\* Download call j has fetched its orders and the list is empty
fetchedNothing(j) ==
    /\ job[j].op \in {"timeWindow", "allOrders"}
    /\ job[j].pc \in {"saving", "returned"}
    /\ job[j].orders = <<>>

\* C12: when the list of fetched raw orders is empty, the batch returns the
\* zeroed result and performs no store operation (no lookup, no create, no
\* update); so for a time-window fetch of the scheduler that returns
\* nothing, and for a full sweep that finds no order.
C12_EmptyBatch ==
    /\ [](\A j \in Batches : fetchedNothing(j) =>
            /\ batch[j].pc \in {"idle", "done"}
            /\ batch[j].idx = 0
            /\ resultsOf(j) = zeroed
            /\ job[j].pc = "returned" => job[j].result = zeroed)
    /\ [][\A j \in Batches :
            (fetchedNothing(j)' /\ (job'[j] # job[j] \/ batch'[j] # batch[j])) =>
               /\ store' = store
               /\ nextId' = nextId]_vars

\* A full sweep was told of no order and handed the empty list to
\* saveOrdersToDatabase; then a time-window call was answered with the
\* empty-result fault and returned without a save.
C12_Witness ==
    /\ job[1].op = "allOrders" /\ job[1].pc = "returned" /\ fetchedNothing(1)
    /\ batch[1].pc = "done"
    /\ job[2].op = "timeWindow" /\ job[2].pc = "returned" /\ fetchedNothing(2)
    /\ job[2].reply \in Faults
    /\ batch[2].pc = "idle"

\* The fault the time-window fetch takes for "no orders found"
recognisedFault ==
    [kind |-> "fault",
     cause |-> [faultCode |-> 2, faultString |-> EmptyResultString]]

\* C13: when the external API fails, the time-window fetch returns the empty
\* list without raising exactly when the fault is the recognised
\* empty-result fault (fault code 2 with the known fault string); every
\* other fault makes the fetch raise an error to its caller.
C13_EmptyResultFault ==
    \A j \in Batches :
        (job[j].op = "timeWindow" /\ job[j].reply \in Faults) =>
            IF job[j].reply = recognisedFault
            THEN job[j].pc = "returned" /\ job[j].orders = <<>> /\ job[j].error = ""
            ELSE job[j].pc = "raised" /\ job[j].error = ErrDownload

\* One time-window call was answered with the recognised fault and returned
\* nothing; the next was answered with fault code 2 and another fault string
\* and raised.
C13_Witness ==
    /\ job[1].op = "timeWindow" /\ job[1].reply = recognisedFault
    /\ job[1].pc = "returned"
    /\ job[2].op = "timeWindow" /\ job[2].reply \in Faults
    /\ "cause" \in DOMAIN job[2].reply /\ job[2].reply.cause.faultCode = 2
    /\ job[2].pc = "raised"

\* The call of downloadOrdersBySerialNumbers j was made with an empty list
emptyIdList(j) == job[j].ids.isArray /\ job[j].ids.items = <<>>

\* C14 as stated: every call of the fetch by serial numbers with an empty id
\* list is rejected with the validation error and makes no request; every
\* call while the client is not configured fails with the configuration
\* error and makes no request.
C14_RejectedBeforeRequest ==
    \A j \in Batches :
        (job[j].op = "serialNumbers") =>
            /\ emptyIdList(j) =>
                 job[j].pc = "raised" /\ job[j].error = ErrValidation /\ job[j].requests = 0
            /\ ~apiReady =>
                 job[j].pc = "raised" /\ job[j].error = ErrNotInitialized /\ job[j].requests = 0

\* C14 amended: every call of the fetch by serial numbers with an empty id
\* list on a configured client is rejected with the validation error and
\* makes no request; every call while the client is not configured, with an
\* empty list too, fails with the configuration error and makes no request.
C14_RejectedBeforeRequestAmended ==
    \A j \in Batches :
        (job[j].op = "serialNumbers") =>
            /\ (apiReady /\ emptyIdList(j)) =>
                 job[j].pc = "raised" /\ job[j].error = ErrValidation /\ job[j].requests = 0
            /\ ~apiReady =>
                 job[j].pc = "raised" /\ job[j].error = ErrNotInitialized /\ job[j].requests = 0

\* On a configured client a call with the empty list was rejected, and a
\* call with serial numbers sent its request.
C14_Witness ==
    /\ apiReady
    /\ job[1].op = "serialNumbers" /\ emptyIdList(1)
    /\ job[1].pc = "raised" /\ job[1].error = ErrValidation
    /\ job[2].op = "serialNumbers" /\ job[2].requests = 1

\* C15: if a fetch call of a batch fails (the time-window fetch, the
\* pagination request or any page of the full sweep), the whole batch
\* fails: saveOrdersToDatabase is not called, so no order of the batch,
\* also of pages already fetched, is transformed or written, and the step
\* in which the call fails leaves the store as it is.
C15_NoPartialFetch ==
    /\ [](\A j \in Batches :
            (job[j].op \in {"timeWindow", "allOrders"} /\ job[j].pc = "raised") =>
                batch[j] = idleBatch)
    /\ [][\A j \in Batches :
            (job'[j].pc = "raised" /\ job[j].pc # "raised") =>
                /\ store' = store
                /\ batch' = batch
                /\ fetched' = fetched]_vars

\* After an earlier call stored orders, a full sweep fetched its first page
\* with an order and failed on the second page.
C15_Witness ==
    /\ store # {}
    /\ job[2].op = "allOrders" /\ job[2].pc = "raised"
    /\ job[2].page = 1 /\ job[2].orders # <<>>
    /\ batch[2] = idleBatch

\* ------------------------------------------------------------------------
\* Scheduler life-cycle claims
\* ------------------------------------------------------------------------

\* The timers that are armed
armed == {t \in DOMAIN timers : timers[t] = "started"}

\* The triggers (ticks and manual calls of runNow) that passed the run-guard
triggered == {i \in Calls : kind[i] \in {"tick", "runNow"} /\ pc[i] \notin {"idle", "skipped"}}

\* C16: there is no automatic retry. A request for new orders is sent only
\* in the step in which a tick or a runNow() passes the run-guard, one
\* request per trigger; no run goes back to fetching, so after a failed
\* fetch the next request is sent by a later trigger.
C16_NoAutomaticRetry ==
    /\ [][/\ fetchCount' \in {fetchCount, fetchCount + 1}
          /\ fetchCount' # fetchCount =>
                \E i \in Calls : /\ pc[i] = "idle" /\ pc'[i] = "fetching"
                                 /\ kind'[i] \in {"tick", "runNow"}
          /\ \A i \in Calls : (pc'[i] = "fetching" /\ pc[i] # "fetching") => pc[i] = "idle"]_vars
    /\ [](fetchCount <= Cardinality(triggered))

\* A run whose fetch failed has ended, one request was sent, and nothing
\* else was triggered.
C16_Witness ==
    /\ apiReady
    /\ pc[1] = "done" /\ kind[1] = "tick"
    /\ LogRunFailed \in log
    /\ fetchCount = 1
    /\ \A i \in Calls \ {1} : pc[i] = "idle"

\* C17: after stop(), from any state, isScheduled is false and the timer is
\* cancelled: whenever the scheduler is not scheduled no timer is armed, and
\* a tick starts a run only while it is scheduled; stop() on a scheduler
\* that is not scheduled changes nothing.
C17_StopCancelsTimer ==
    /\ [](~getStatus.isScheduled => armed = {})
    /\ [][/\ (scheduledTask # 0 /\ scheduledTask' = 0) =>
                /\ armed' = {}
                /\ UNCHANGED <<isRunning, pc, kind>>
          /\ (\E i \in Calls : kind[i] = "none" /\ kind'[i] = "tick") =>
                (getStatus.isScheduled /\ armed # {})
          /\ (stop /\ scheduledTask = 0) => UNCHANGED vars]_vars

\* The scheduler was started, a tick ran, and the scheduler was stopped.
C17_Witness ==
    /\ ~getStatus.isScheduled
    /\ timers # <<>>
    /\ \E i \in Calls : kind[i] = "tick"

\* C19: for every sequence of start() and stop() at most one timer is armed.
\* The armed timer is the one the scheduler holds; start() creates a timer
\* only when the scheduler holds none and every earlier timer is stopped.
C19_OneTimer ==
    /\ [](/\ Cardinality(armed) <= 1
          /\ armed = IF scheduledTask = 0 THEN {} ELSE {scheduledTask})
    /\ [][Len(timers') > Len(timers) =>
            /\ scheduledTask = 0
            /\ armed = {}
            /\ Len(timers') = Len(timers) + 1]_vars

\* start(), stop(), start(): the first timer is stopped, the second armed.
C19_Witness ==
    /\ Len(timers) = 2
    /\ timers[1] = "stopped" /\ timers[2] = "started"
    /\ scheduledTask = 2

\* C20: while the external fetcher is not configured, start() is a no-op:
\* no timer is ever created, isScheduled stays false and no tick starts a
\* run.
C20_StartNeedsReadyApi ==
    /\ [](~apiReady =>
            /\ timers = <<>>
            /\ ~getStatus.isScheduled
            /\ \A i \in Calls : kind[i] # "tick")
    /\ [][(start /\ ~apiReady) => UNCHANGED vars]_vars

\* On a scheduler whose fetcher is not configured a manual run has ended
\* and nothing is scheduled.
C20_Witness ==
    /\ ~getStatus.apiReady
    /\ \E i \in Calls : pc[i] = "done" /\ kind[i] = "runNow"
    /\ timers = <<>> /\ scheduledTask = 0

\* C18: stop() called while a batch is in flight does not cancel it. The
\* step of stop() leaves every run, batch and the store as they are; a
\* download call that has returned has processed every order it fetched;
\* while the download of a run started by a tick is in flight on a
\* scheduler that has been stopped since, isRunning is true; and with no
\* run in flight isRunning is false.
C18_StopKeepsBatch ==
    /\ [][(scheduledTask # 0 /\ scheduledTask' = 0) =>
            UNCHANGED <<isRunning, pc, job, batch, store>>]_vars
    /\ [](\A j \in Batches :
            (job[j].pc = "returned" /\ job[j].orders # <<>>) =>
                /\ batch[j].pc = "done"
                /\ batch[j].idx = Len(job[j].orders)
                /\ batch[j].created + batch[j].updated = Len(job[j].orders))
    /\ [](\A i \in Calls :
            (kind[i] = "tick" /\ scheduledTask = 0 /\ downloading(i)) => isRunning)
    /\ []((\A i \in Calls : ~inFlight(i)) => ~isRunning)

\* ------------------------------------------------------------------------
\* Ordering and frame claims of the persistence gate
\* ------------------------------------------------------------------------

\* C21: within one batch the items are processed in the order of the
\* fetched list and one at a time: the position of the loop moves by one
\* item at a time and only when the item before it has finished (skipped,
\* failed, or written), a lookup is started only for the item the loop is
\* at, a batch writes only the record of the item it is at, and the batch
\* ends only after its last item.
C21_ItemsInOrder ==
    [][\A b \in Batches :
         LET r  == batch[b]
             r2 == batch'[b]
         IN
         /\ r2.idx \in {r.idx, r.idx + 1}
         /\ (r2.idx # r.idx) =>
              /\ r.pc \in {"idle", "loop", "lookup", "create", "update"}
              /\ r2.pc = "loop"
              /\ r2.idx <= Len(fetched)
         /\ (r2.pc = "lookup" /\ r2 # r) => (r.pc = "loop" /\ r2.idx = r.idx)
         /\ (r2.pc \in {"create", "update"} /\ r2 # r) =>
              (r.pc = "lookup" /\ r2.idx = r.idx)
         /\ (r2.pc = "done" /\ r2 # r) => r2.idx = Len(fetched)
         /\ (r2 # r /\ store' # store) =>
              /\ r.pc \in {"create", "update"}
              /\ \E d \in store' \ store :
                   /\ d.externalId = transformOrderData(fetched[r.idx]).externalId
                   /\ \A e \in store' \ store : e = d]_vars

\* One batch went through two orders with different ids: the record of the
\* first order was created first and the record of the second after it.
C21_Witness ==
    /\ Len(fetched) = 2
    /\ batch[1].pc = "done" /\ batch[1].created = 2 /\ batch[2].pc = "idle"
    /\ \E d1, d2 \in store :
         /\ d1._id = 1 /\ d1.externalId = fetched[1].orderId
         /\ d2._id = 2 /\ d2.externalId = fetched[2].orderId

\* C22: an update leaves the internal id and the createdAt of the record as
\* they were and sets updatedAt to the instant of that write; createdAt is
\* set once, at the insert of the record, and no later step of any sync of
\* the same externalId changes it.
C22_UpdateKeepsCreation ==
    [][/\ \A d \in store : \E d2 \in store' :
            /\ d2._id = d._id
            /\ d2.externalId = d.externalId
            /\ d2.createdAt = d.createdAt
            /\ d2 # d => d2.updatedAt = clock'
       /\ \A d2 \in store' :
            (\A d \in store : d._id # d2._id) =>
               (d2.createdAt = clock' /\ d2.updatedAt = clock')
       /\ \A b \in Batches :
            (batch[b].pc = "update" /\ batch'[b].updated = batch[b].updated + 1) =>
               \E d \in store, d2 \in store' :
                  /\ d.externalId = current(b).externalId
                  /\ d2._id = d._id
                  /\ d2.createdAt = d.createdAt
                  /\ d2.updatedAt = clock']_vars

\* A record was created at one instant and updated at a later one: its
\* createdAt is still the first instant, its updatedAt is the second.
C22_Witness ==
    /\ \E b \in Batches : batch[b].updated > 0
    /\ \E d \in store : d.createdAt = 0 /\ d.updatedAt = MaxClock /\ d._id = 1
    /\ clock = MaxClock

\* ------------------------------------------------------------------------
\* Time-window claims
\* ------------------------------------------------------------------------

\* Seconds in one minute of the window
SecondsPerMinute == MsPerMinute \div MsPerSecond

\* C23: the window sent to the external API ends at the capture instant
\* and begins lookbackMinutes before it, so the end less the beginning is
\* exactly the minutes of the call, also when the clock advances while the
\* window is computed.
C23_WindowWidth ==
    \A j \in Batches : \A q \in job[j].query :
        q.ordersDateEnd - q.ordersDateBegin = job[j].minutes * SecondsPerMinute

\* C24: a time-window call asked for a lookback of zero or fewer minutes is
\* rejected before a request is sent; no request is made with a window
\* that begins at or after its end, and the minutes used are the lookback
\* that was asked for.
C24_LookbackRejected ==
    \A j \in Batches :
        job[j].op = "timeWindow" =>
            /\ job[j].lookback <= 0 => (job[j].pc = "raised" /\ job[j].requests = 0)
            /\ \A q \in job[j].query : q.ordersDateBegin < q.ordersDateEnd
            /\ job[j].query # {} => job[j].minutes = job[j].lookback

\* ------------------------------------------------------------------------
\* Failure handling of the scheduler's entry points
\* ------------------------------------------------------------------------

\* C25: in a scheduled run a failed download of the new orders does not end
\* the run: the download phase is always followed by the status-monitoring
\* pass of the same run (one more job is started), a run ends only from its
\* monitoring pass, and isRunning is false at the step that ends the run.
C25_MonitoringAfterFailedDownload ==
    [][\A i \in Calls :
         /\ (pc[i] = "fetching" /\ pc'[i] # "fetching") =>
              /\ pc'[i] \in {"saving", "monitoring"}
              /\ pc'[i] = "monitoring" => jobCount' = jobCount + 1
         /\ (pc[i] = "fetching" /\ pc'[i] # "fetching" /\ LogRunFailed \in log' \ log) =>
              /\ pc'[i] = "monitoring"
              /\ jobCount' = jobCount + 1
         /\ (pc[i] # "done" /\ pc'[i] = "done") =>
              /\ pc[i] = "monitoring"
              /\ isRunning' = FALSE]_vars

\* The download of a cron run failed, its status-monitoring job was started
\* all the same and has returned: the run has ended with isRunning false.
C25_Witness ==
    /\ kind[1] = "tick" /\ pc[1] = "done" /\ pc[2] = "idle"
    /\ LogRunFailed \in log
    /\ fetchCount = 1 /\ saveCount = 0 /\ jobCount = 1
    /\ ~isRunning

\* C26: runScheduledTask(), runNow() and runStatusMonitoringNow() never
\* raise to their caller: whatever fails in the run, the download, the
\* status-monitoring job or both, the call ends normally; a direct call of
\* runStatusMonitoringTask() raises exactly when its job fails, after the
\* failure is logged.
C26_EntryPointsNeverRaise ==
    /\ [](\A i \in Calls :
            kind[i] \in {"tick", "runNow", "statusNow"} => pc[i] # "raised")
    /\ [][\A i \in Calls :
            /\ (kind[i] \in {"tick", "runNow", "statusNow"}
                  /\ pc[i] = "monitoring" /\ pc'[i] # "monitoring") => pc'[i] = "done"
            /\ (pc[i] = "task" /\ pc'[i] # "task") =>
                 /\ pc'[i] \in {"done", "raised"}
                 /\ pc'[i] = "raised" => LogMonitoringFailed \in log'
                 /\ pc'[i] = "done" => log' = log
                 /\ LogMonitoringFailed \in log' \ log => pc'[i] = "raised"]_vars

\* In one run of runNow() the download and then the status job failed and
\* the call ended normally; the job of a direct runStatusMonitoringTask()
\* failed and the call raised.
C26_Witness ==
    /\ kind[1] = "runNow" /\ pc[1] = "done"
    /\ {LogRunFailed, LogMonitoringFailed, LogTasksFailed} \subseteq log
    /\ kind[2] = "statusTask" /\ pc[2] = "raised"
    /\ fetchCount = 1 /\ saveCount = 0 /\ jobCount = 2

\* C30: runAllTasksNow() runs the scheduled tasks, the download and then the
\* status monitoring, exactly when no run is in flight, and ends without an
\* error; while isRunning is true it is a no-op that runs nothing.
C30_RunAllTasksNow ==
    /\ [](\A i \in Calls : kind[i] = "allNow" => pc[i] # "raised")
    /\ [][\A i \in Calls :
            (pc[i] = "idle" /\ kind'[i] = "allNow") =>
               IF isRunning
               THEN /\ pc'[i] = "skipped"
                    /\ UNCHANGED <<isRunning, fetchCount, saveCount, jobCount, log>>
               ELSE /\ pc'[i] = "fetching"
                    /\ isRunning']_vars

\* The fields of a stored order that a sync writes: those of the
\* transformed order
SyncFields ==
    {"externalId", "externalSerialNumber", "currency", "orderProducts",
     "orderProductsCost", "status", "externalCreatedAt", "externalUpdatedAt"}

\* C27: after an update every sync field of the stored record has the value
\* of the newly transformed order, which gives every sync field a value
\* (its default where the raw order lacks the field); nothing an earlier
\* sync of the same externalId wrote stays in a sync field.
C27_FullReplace ==
    [][\A b \in Batches :
         (batch[b].pc = "update" /\ batch'[b].updated = batch[b].updated + 1) =>
            /\ DOMAIN current(b) = SyncFields
            /\ \E d2 \in store' :
                 /\ d2.externalId = current(b).externalId
                 /\ \A f \in SyncFields : f \in DOMAIN d2 /\ d2[f] = current(b)[f]]_vars

\* An order was stored with its currency and then synced again from a raw
\* order without currency and products: the record holds the defaults of
\* the second order, not the values of the first.
C27_Witness ==
    /\ Len(fetched) = 2
    /\ "currencyId" \in DOMAIN fetched[1] /\ "currencyId" \notin DOMAIN fetched[2]
    /\ "orderId" \in DOMAIN fetched[1] /\ "orderId" \in DOMAIN fetched[2]
    /\ fetched[1].orderId = fetched[2].orderId
    /\ batch[1].pc = "done" /\ batch[1].created = 1 /\ batch[1].updated = 1
    /\ batch[2].pc = "idle"
    /\ \E d \in store : /\ d.externalId = fetched[1].orderId
                        /\ d.currency = "unknown"
                        /\ d.orderProducts = <<>>
                        /\ d.status = "paid"

\* The messages of batch b that a catch block wrote: the items that raised
\* an error
raisedIn(b) ==
    Cardinality({k \in DOMAIN batch[b].errors : batch[b].errors[k] # MsgMissingId})

\* The orders batch b has finished
finishedIn(b) ==
    IF batch[b].pc \in {"idle", "done"} THEN batch[b].idx ELSE batch[b].idx - 1

\* C28: the result of a batch has total = the number of input orders; each
\* finished order has counted in exactly one of created, updated and
\* skipped, or has left an error message of a catch block and no count, so
\* created + updated + skipped <= total at the end, with equality exactly
\* when no item raised an error; there are at most total messages; and the
\* store has grown by exactly the created count of its writers.
C28_ResultAccounting ==
    /\ \A b \in Batches :
         LET r == batch[b]
         IN  /\ r.pc # "idle" => r.total = Len(fetched)
             /\ r.created + r.updated + r.skipped + raisedIn(b) = finishedIn(b)
             /\ Len(r.errors) <= finishedIn(b)
             /\ r.pc = "done" =>
                  /\ finishedIn(b) = r.total
                  /\ r.created + r.updated + r.skipped <= r.total
                  /\ (r.created + r.updated + r.skipped = r.total) <=> (raisedIn(b) = 0)
                  /\ Len(r.errors) <= r.total
    /\ Cardinality(store) = batch[1].created + batch[2].created
    /\ batch[2].pc = "idle" => Cardinality(store) = batch[1].created

\* A first batch skipped an order without id (counted, with its message)
\* and created the other: its counts add up to total. The second batch
\* skipped the first order likewise and the store failed on the other: one
\* message without a count, and its counts add up to less than total.
C28_Witness ==
    /\ batch[1].pc = "done" /\ batch[1].total = 2
    /\ batch[1].created = 1 /\ batch[1].skipped = 1
    /\ batch[1].errors = <<MsgMissingId>>
    /\ batch[2].pc = "done"
    /\ batch[2].errors = <<MsgMissingId, MsgStore>>
    /\ batch[2].created + batch[2].updated + batch[2].skipped = 1
    /\ Cardinality(store) = 1

\* ------------------------------------------------------------------------
\* Full sweep
\* ------------------------------------------------------------------------

\* The page indices 0, 1, ..., n - 1 in ascending order
firstPages(n) == [k \in 1..n |-> k - 1]

====
